---- MODULE Spec2Model ----
(***************************************************************************)
(* Model of WebScraper_Basel_Kristian.py: a sequential script that opens   *)
(* a listing-search page in a browser, extracts four text fields from      *)
(* every listing container of the page, follows the "next page" control    *)
(* until a wait times out, closes the browser and writes all records to a  *)
(* CSV file.                                                               *)
(*                                                                         *)
(* Text is modelled as a sequence of one-character strings so that         *)
(* str.strip() is computed rather than assumed.  A page source is          *)
(* modelled by the sequence of listing containers that                     *)
(* soup.select('div[data-test="result-list-item"]') returns for it, in     *)
(* document order.  A container is described by the set of selectors of    *)
(* the script that match inside it, and by whether processing it raises.   *)
(***************************************************************************)
EXTENDS Integers, Sequences, FiniteSets, TLC

VARIABLES
    pc,              \* position of the single control flow in the script
    consent,         \* outcome of the cookie-banner step (lines 62-70)
    page_no,         \* number of the results page the browser currently shows
    page_source,     \* page source handed to extract_listing_data (line 148)
    lookups,         \* selector calls made per container by the last extraction
    scraped_data,    \* value returned by the last extract_listing_data call
    all_data,        \* the global accumulation list (line 76)
    pages_extracted, \* history: the scraped_data of every scrape, in order
    visits,          \* history: page_no of every scrape, in order
    browser,         \* "open" | "closed"
    quit_calls,      \* number of driver.quit() calls issued
    late_ops,        \* TRUE once a browser operation was issued after quit
    csv,             \* the output file
    write_calls,     \* number of completed to_csv calls
    raised           \* the exception most recently raised in the main script

vars == <<pc, consent, page_no, page_source, lookups, scraped_data, all_data,
          pages_extracted, visits, browser, quit_calls, late_ops, csv,
          write_calls, raised>>

----------------------------------------------------------------------------
(* Bounds of the model. *)

\* most results pages the site serves
MaxPages == 3
\* most listing containers on a page visited by the main loop
MaxPageListings == 1
\* most containers of a page of sample containers given to the extractor alone
MaxListings == 3
\* most containers of a page of arbitrary containers given to the extractor alone
MaxAnyListings == 1

----------------------------------------------------------------------------
(* Text and str.strip(). *)

IsSpace(ch) == ch \in {" ", "\t", "\n"}

RECURSIVE lstrip(_)
lstrip(s) ==
    IF s = <<>> THEN <<>>
    ELSE IF IsSpace(Head(s)) THEN lstrip(Tail(s)) ELSE s

RECURSIVE rstrip(_)
rstrip(s) ==
    IF s = <<>> THEN <<>>
    ELSE IF IsSpace(s[Len(s)]) THEN rstrip(SubSeq(s, 1, Len(s) - 1)) ELSE s

strip(s) == rstrip(lstrip(s))

\* the fallback literal of lines 106, 115, 120, 125
NA == <<"N", "/", "A">>

----------------------------------------------------------------------------
(* Selectors of the script and the containers they are applied to. *)

Fields == {"Rooms", "Size", "Price", "Address"}

\* insertion order of the keys of the record dictionary
RecordKeys == <<"Rooms", "Size", "Price", "Address">>

\* find('strong', class_=...roomsLivingSpacePrice_M6Ktp)
rooms_class == "strong.HgListingRoomsLivingSpacePrice_roomsLivingSpacePrice_M6Ktp"
\* select_one("div:contains('rooms') strong")
rooms_contains == "div:contains('rooms') strong"
\* find('strong', class_=...commaPrice_mXXpt)
size_class == "strong.HgListingRoomsLivingSpacePrice_commaPrice_mXXpt"
\* select_one("strong[title='living space']")
size_title == "strong[title='living space']"
\* find('span', class_=...price_u9Vee)
price_class == "span.HgListingRoomsLivingSpacePrice_price_u9Vee"
\* find('div', class_=...address_JGiFv)
address_class == "div.HgListingCard_address_JGiFv"

Selectors ==
    {rooms_class, rooms_contains, size_class, size_title, price_class, address_class}

\* The raw text of the first element a selector matches (one text per
\* selector, with the surrounding whitespace markup usually carries).
ElementText(sel) ==
    CASE sel = rooms_class    -> <<" ", "3", " ">>
      [] sel = rooms_contains -> <<"4">>
      [] sel = size_class     -> <<"7", "0", "\n">>
      [] sel = size_title     -> <<"\t", "8", "0">>
      [] sel = price_class    -> <<" ", "9", "5", "0">>
      [] sel = address_class  -> <<" ", "B", "S", " ">>

\* A listing container: the selectors that match inside it, and whether
\* processing it raises an exception inside the try block of lines 99-134.
Containers == [match : SUBSET Selectors, malformed : BOOLEAN]

\* Representative containers: every primary selector matches; only the
\* secondary selectors match; nothing matches; one that raises.
SampleContainers ==
    { [match |-> {rooms_class, size_class, price_class, address_class},
       malformed |-> FALSE],
      [match |-> {rooms_contains, size_title}, malformed |-> FALSE],
      [match |-> {}, malformed |-> FALSE],
      [match |-> Selectors, malformed |-> TRUE] }

\* the containers of the pages visited by the main loop
LoopContainers ==
    { [match |-> {rooms_class, size_class, price_class, address_class},
       malformed |-> FALSE],
      [match |-> {rooms_contains, size_title}, malformed |-> FALSE],
      [match |-> Selectors, malformed |-> TRUE] }

SeqsUpTo(S, n) == UNION { [1..k -> S] : k \in 0..n }

\* page sources given to extract_listing_data when it is exercised alone
PageSources == SeqsUpTo(SampleContainers, MaxListings)
                   \cup SeqsUpTo(Containers, MaxAnyListings)

\* page sources the browser returns to the main loop
LoopPageSources == SeqsUpTo(LoopContainers, MaxPageListings)

----------------------------------------------------------------------------
(* extract_listing_data, lines 79-138. *)

\* listing.find(...) / listing.select_one(...): the matched element or None
NoElement == [found |-> FALSE, text |-> <<>>]

find(listing, sel) ==
    IF sel \in listing.match
    THEN [found |-> TRUE, text |-> ElementText(sel)]
    ELSE NoElement

select_one(listing, sel) == find(listing, sel)

\* lines 101-106 with the two selectors consulted in the opposite order
extract_rooms_first_hit(listing) ==
    LET rooms  == find(listing, rooms_class)
        rooms2 == select_one(listing, rooms_contains)
    IN  IF rooms2.found THEN strip(rooms2.text)
        ELSE IF rooms.found THEN strip(rooms.text) ELSE NA

\* lines 101-106
extract_rooms(listing) ==
    LET rooms == find(listing, rooms_class)
    IN  IF rooms.found THEN strip(rooms.text)
        ELSE LET rooms2 == select_one(listing, rooms_contains)
             IN  IF rooms2.found THEN strip(rooms2.text) ELSE NA

\* lines 110-115
extract_size(listing) ==
    LET size == find(listing, size_class)
    IN  IF size.found THEN strip(size.text)
        ELSE LET size2 == select_one(listing, size_title)
             IN  IF size2.found THEN strip(size2.text) ELSE NA

\* lines 119-120 with an empty text in place of the fallback literal
extract_price_empty(listing) ==
    LET price == find(listing, price_class)
    IN  IF price.found THEN strip(price.text) ELSE <<>>

\* lines 119-120
extract_price(listing) ==
    LET price == find(listing, price_class)
    IN  IF price.found THEN strip(price.text) ELSE NA

\* lines 124-125
extract_address(listing) ==
    LET address == find(listing, address_class)
    IN  IF address.found THEN strip(address.text) ELSE NA

\* lines 129-134: the dictionary appended for one container
listing_record(listing) ==
    [ Rooms   |-> extract_rooms(listing),
      Size    |-> extract_size(listing),
      Price   |-> extract_price(listing),
      Address |-> extract_address(listing) ]

\* the selector calls lines 101-124 make on one container, in order
selector_calls(listing) ==
    <<rooms_class>>
        \o (IF rooms_class \in listing.match THEN <<>> ELSE <<rooms_contains>>)
        \o <<size_class>>
        \o (IF size_class \in listing.match THEN <<>> ELSE <<size_title>>)
        \o <<price_class, address_class>>

\* lines 98-136 with the try around the whole loop: the first container that
\* raises ends the extraction of the page
RECURSIVE for_listings_abort(_, _)
for_listings_abort(listings, scraped) ==
    IF listings = <<>> THEN scraped
    ELSE IF Head(listings).malformed THEN scraped
    ELSE for_listings_abort(Tail(listings),
                            Append(scraped, listing_record(Head(listings))))

\* lines 98-136, the for loop with its try/except: a container that raises
\* is reported and skipped, any other appends one record
RECURSIVE for_listings(_, _)
for_listings(listings, scraped) ==
    IF listings = <<>> THEN scraped
    ELSE IF Head(listings).malformed
         THEN for_listings(Tail(listings), scraped)
         ELSE for_listings(Tail(listings),
                           Append(scraped, listing_record(Head(listings))))

\* lines 90-138
extract_listing_data(source) == for_listings(source, <<>>)

\* the selector calls made for each container of a page (none are recorded
\* for a container whose processing raises)
lookups_of(source) ==
    [i \in 1..Len(source) |->
        IF source[i].malformed THEN <<>> ELSE selector_calls(source[i])]

----------------------------------------------------------------------------
(* pandas: DataFrame(all_data) and DataFrame.to_csv(..., index=True). *)

\* header cell of the unnamed index column
IndexLabel == ""

NoFile == [state |-> "absent", header |-> <<>>, rows |-> <<>>]

PartialFile == [state |-> "partial", header |-> <<>>, rows |-> <<>>]

\* line 184: the columns are the keys of the dictionaries in insertion
\* order; an empty list gives a frame with no columns at all
DataFrame(data) ==
    LET columns == IF data = <<>> THEN <<>> ELSE RecordKeys
    IN  [ columns |-> columns,
          rows    |-> [i \in 1..Len(data) |->
                          [j \in 1..Len(columns) |-> data[i][columns[j]]]] ]

\* line 185: one header line, then one line per row led by its 0-based index
to_csv(df) ==
    [ state  |-> "complete",
      header |-> <<IndexLabel>> \o df.columns,
      rows   |-> [i \in 1..Len(df.rows) |-> <<i - 1>> \o df.rows[i]] ]

----------------------------------------------------------------------------
(* The main script, lines 51-186. *)

NoException == [at |-> "none", type |-> "none"]

\* what a browser call can do: return, raise selenium's TimeoutException, or
\* raise any other exception
Outcomes == {"ok", "TimeoutException", "Exception"}

\* a browser operation issued now is late when the session is already closed
LateOp == late_ops \/ browser = "closed"

\* lines 175-178 with every exception caught
except_catches_all(type) == "quit"

\* lines 175-178 with the loop continued instead of left
except_continues(type) ==
    IF type = "TimeoutException" THEN "scrape" ELSE "crashed"

\* lines 175-178: where control goes when a statement of the try block of
\* lines 156-173 raises; only TimeoutException is caught, and it breaks
except_clause(type) ==
    IF type = "TimeoutException" THEN "quit" ELSE "crashed"

\* state after construction of the driver (line 51)
Init ==
    /\ pc = "get"
    /\ consent = "pending"
    /\ page_no = 1
    /\ page_source = <<>>
    /\ lookups = <<>>
    /\ scraped_data = <<>>
    /\ all_data = <<>>
    /\ pages_extracted = <<>>
    /\ visits = <<>>
    /\ browser = "open"
    /\ quit_calls = 0
    /\ late_ops = FALSE
    /\ csv = NoFile
    /\ write_calls = 0
    /\ raised = NoException

\* lines 55-59: driver.get(url), maximize_window(); not inside any try
Navigate ==
    /\ pc = "get"
    /\ \E outcome \in {"ok", "Exception"} :
          IF outcome = "ok"
          THEN pc' = "cookie" /\ UNCHANGED raised
          ELSE pc' = "crashed" /\ raised' = [at |-> "get", type |-> outcome]
    /\ late_ops' = LateOp
    /\ UNCHANGED <<consent, page_no, page_source, lookups, scraped_data,
                   all_data, pages_extracted, visits, browser, quit_calls,
                   csv, write_calls>>

\* lines 62-73: the cookie banner; every exception is caught and reported
AcceptCookies ==
    /\ pc = "cookie"
    /\ \E outcome \in Outcomes :
          consent' = IF outcome = "ok" THEN "accepted" ELSE "failed"
    /\ pc' = "scrape"
    /\ late_ops' = LateOp
    /\ UNCHANGED <<page_no, page_source, lookups, scraped_data, all_data,
                   pages_extracted, visits, browser, quit_calls, csv,
                   write_calls, raised>>

\* line 150 with the list replaced instead of extended
accumulate_replace(data, scraped) == scraped

\* line 150: all_data.extend(scraped_data)
accumulate(data, scraped) == data \o scraped

\* line 154, lines 141-150: scrape_data_from_page(driver); outside the try
ScrapePage ==
    /\ pc = "scrape"
    /\ \/ \E source \in LoopPageSources :
             /\ page_source' = source
             /\ scraped_data' = extract_listing_data(source)
             /\ lookups' = lookups_of(source)
             /\ all_data' = accumulate(all_data, extract_listing_data(source))
             /\ pages_extracted' =
                    Append(pages_extracted, extract_listing_data(source))
             /\ visits' = Append(visits, page_no)
             /\ pc' = "scroll"
             /\ UNCHANGED raised
       \/ /\ pc' = "crashed"
          /\ raised' = [at |-> "scrape", type |-> "Exception"]
          /\ UNCHANGED <<page_source, scraped_data, lookups, all_data,
                         pages_extracted, visits>>
    /\ late_ops' = LateOp
    /\ UNCHANGED <<consent, page_no, browser, quit_calls, csv, write_calls>>

\* one statement of the try block of lines 156-173
TryStep(at, next, outcome) ==
    /\ pc = at
    /\ IF outcome = "ok"
       THEN pc' = next /\ UNCHANGED raised
       ELSE /\ pc' = except_clause(outcome)
            /\ raised' = [at |-> at, type |-> outcome]
    /\ late_ops' = LateOp
    /\ UNCHANGED <<consent, page_source, lookups, scraped_data, all_data,
                   pages_extracted, visits, browser, quit_calls, csv,
                   write_calls>>

\* lines 158-159: scroll to the bottom
Scroll ==
    \E outcome \in Outcomes :
        TryStep("scroll", "wait_next", outcome) /\ UNCHANGED page_no

\* lines 162-164: wait up to 10 s for the next-page control; it can only
\* become clickable while the site has a further page
WaitNext ==
    \E outcome \in Outcomes :
        /\ outcome = "ok" => page_no < MaxPages
        /\ TryStep("wait_next", "click", outcome)
        /\ UNCHANGED page_no

\* line 165: next_button.click() moves the browser to the next page
Click ==
    \E outcome \in Outcomes :
        /\ TryStep("click", "wait_listings", outcome)
        /\ page_no' = IF outcome = "ok" THEN page_no + 1 ELSE page_no

\* lines 168-173: wait up to 10 s for listing containers of the new page
WaitListings ==
    \E outcome \in Outcomes :
        TryStep("wait_listings", "scrape", outcome) /\ UNCHANGED page_no

\* line 181 with the session left open
QuitSkipped ==
    /\ pc = "quit"
    /\ pc' = "write"
    /\ UNCHANGED <<consent, page_no, page_source, lookups, scraped_data,
                   all_data, pages_extracted, visits, csv, write_calls,
                   raised, browser, quit_calls, late_ops>>

\* line 181: driver.quit()
Quit ==
    /\ pc = "quit"
    /\ browser' = "closed"
    /\ quit_calls' = quit_calls + 1
    /\ late_ops' = LateOp
    /\ pc' = "write"
    /\ UNCHANGED <<consent, page_no, page_source, lookups, scraped_data,
                   all_data, pages_extracted, visits, csv, write_calls,
                   raised>>

\* lines 184-186: build the frame and write the file; a failure leaves no
\* file or a partial one
WriteCsv ==
    /\ pc = "write"
    /\ \/ /\ csv' = to_csv(DataFrame(all_data))
          /\ write_calls' = write_calls + 1
          /\ pc' = "done"
          /\ UNCHANGED raised
       \/ /\ csv' \in {csv, PartialFile}
          /\ pc' = "crashed"
          /\ raised' = [at |-> "write", type |-> "Exception"]
          /\ UNCHANGED write_calls
    /\ UNCHANGED <<consent, page_no, page_source, lookups, scraped_data,
                   all_data, pages_extracted, visits, browser, quit_calls,
                   late_ops>>

Next ==
    \/ Navigate
    \/ AcceptCookies
    \/ ScrapePage
    \/ Scroll
    \/ WaitNext
    \/ Click
    \/ WaitListings
    \/ Quit
    \/ WriteCsv

Spec == Init /\ [][Next]_vars

\* every statement of the script returns or raises within its timeout, so
\* the single control flow always takes its next step
FairSpec == Spec /\ WF_vars(Next)

----------------------------------------------------------------------------
(* extract_listing_data exercised alone on bounded page sources. *)

InitExtract ==
    /\ pc = "extract_call"
    /\ page_source \in PageSources
    /\ consent = "pending"
    /\ page_no = 1
    /\ lookups = <<>>
    /\ scraped_data = <<>>
    /\ all_data = <<>>
    /\ pages_extracted = <<>>
    /\ visits = <<>>
    /\ browser = "open"
    /\ quit_calls = 0
    /\ late_ops = FALSE
    /\ csv = NoFile
    /\ write_calls = 0
    /\ raised = NoException

\* line 149: scraped_data = extract_listing_data(page_source)
ExtractCall ==
    /\ pc = "extract_call"
    /\ scraped_data' = extract_listing_data(page_source)
    /\ lookups' = lookups_of(page_source)
    /\ pc' = "extract_return"
    /\ UNCHANGED <<consent, page_no, page_source, all_data, pages_extracted,
                   visits, browser, quit_calls, late_ops, csv, write_calls,
                   raised>>

NextExtract == ExtractCall

SpecExtract == InitExtract /\ [][NextExtract]_vars

----------------------------------------------------------------------------
(* Vocabulary of the properties. *)

\* the containers of a page that do not raise, in document order
WellFormed(source) == SelectSeq(source, LAMBDA c : ~c.malformed)

\* the selectors the script holds for a field, primary first
TiersOf(f) ==
    CASE f = "Rooms"   -> <<rooms_class, rooms_contains>>
      [] f = "Size"    -> <<size_class, size_title>>
      [] f = "Price"   -> <<price_class>>
      [] f = "Address" -> <<address_class>>

FieldOf(sel) == CHOOSE f \in Fields : \E k \in 1..Len(TiersOf(f)) : TiersOf(f)[k] = sel

\* the stripped texts of the elements of container c that a selector of
\* field f matches
ExtractedTexts(c, f) ==
    { strip(ElementText(TiersOf(f)[k])) :
        k \in { j \in 1..Len(TiersOf(f)) : TiersOf(f)[j] \in c.match } }

\* the selector calls of one container that belong to field f, in call order
CallsFor(calls, f) == SelectSeq(calls, LAMBDA sel : FieldOf(sel) = f)

NotAvailable ==
    <<"n", "o", "t", " ", "a", "v", "a", "i", "l", "a", "b", "l", "e">>

Returned == pc = "extract_return"

\* every record has exactly the four fields, each one a text extracted from
\* its container or the given sentinel
RecordsUse(sentinel) ==
    LET wf == WellFormed(page_source)
    IN  /\ Len(scraped_data) = Len(wf)
        /\ \A i \in 1..Len(scraped_data) :
              /\ DOMAIN scraped_data[i] = Fields
              /\ \A f \in Fields :
                    \/ scraped_data[i][f] = sentinel
                    \/ scraped_data[i][f] \in ExtractedTexts(wf[i], f)

(* C1, as stated: every record extract_listing_data returns has exactly the *)
(* fields Rooms, Size, Price and Address, and each value is a text          *)
(* extracted from the container or exactly the string "not available".      *)
C1_SentinelNotAvailable == Returned => RecordsUse(NotAvailable)

(* C1, amended: every record extract_listing_data returns has exactly the   *)
(* fields Rooms, Size, Price and Address, and each value is a text          *)
(* extracted from the container or exactly the string "N/A"; no field is    *)
(* missing.                                                                 *)
C1_SentinelNA == Returned => RecordsUse(NA)

\* a returned record with one field extracted and another one replaced by
\* the fallback literal
C1_Witness ==
    /\ Returned
    /\ \E i \in 1..Len(scraped_data) :
          /\ scraped_data[i].Price = NA
          /\ scraped_data[i].Address = strip(ElementText(address_class))
          /\ scraped_data[i].Address # NA

\* the value a two-tier lookup over the given selectors yields
TwoTierValue(c, primary, secondary) ==
    IF primary \in c.match THEN strip(ElementText(primary))
    ELSE IF secondary \in c.match THEN strip(ElementText(secondary))
    ELSE NA

\* position in scraped_data of the record of the i-th container of a page
RecordIndex(source, i) == Len(WellFormed(SubSeq(source, 1, i)))

(* C2, as stated: for every container and each of the four fields the       *)
(* extractor consults a primary selector and, when that one misses, a       *)
(* secondary selector, and substitutes the sentinel only when both miss.    *)
C2_TwoTierAllFields ==
    Returned =>
        /\ Len(scraped_data) = Len(WellFormed(page_source))
        /\ \A i \in 1..Len(page_source) : \A f \in Fields :
              ~page_source[i].malformed =>
                  LET c     == page_source[i]
                      value == scraped_data[RecordIndex(page_source, i)][f]
                      made  == CallsFor(lookups[i], f)
                  IN  IF made[1] \in c.match
                      THEN /\ Len(made) = 1
                           /\ value = strip(ElementText(made[1]))
                      ELSE /\ Len(made) = 2
                           /\ value = TwoTierValue(c, made[1], made[2])

(* C2, amended: for Rooms and Size the value is the primary selector's text *)
(* whenever the primary selector matches (also when the secondary would     *)
(* match), otherwise the secondary selector's text when that one matches,   *)
(* and "N/A" only when both miss.  For Price and Address one selector is    *)
(* consulted: the value is its text when it matches and "N/A" otherwise.    *)
C2_TwoTierRoomsAndSize ==
    Returned =>
        /\ Len(scraped_data) = Len(WellFormed(page_source))
        /\ \A i \in 1..Len(page_source) :
              ~page_source[i].malformed =>
                  LET c == page_source[i]
                      r == scraped_data[RecordIndex(page_source, i)]
                  IN  /\ r.Rooms = TwoTierValue(c, rooms_class, rooms_contains)
                      /\ r.Size = TwoTierValue(c, size_class, size_title)
                      /\ r.Price = IF price_class \in c.match
                                   THEN strip(ElementText(price_class)) ELSE NA
                      /\ r.Address = IF address_class \in c.match
                                     THEN strip(ElementText(address_class)) ELSE NA
                      /\ CallsFor(lookups[i], "Rooms") =
                            IF rooms_class \in c.match
                            THEN <<rooms_class>>
                            ELSE <<rooms_class, rooms_contains>>
                      /\ CallsFor(lookups[i], "Size") =
                            IF size_class \in c.match
                            THEN <<size_class>> ELSE <<size_class, size_title>>
                      /\ CallsFor(lookups[i], "Price") = <<price_class>>
                      /\ CallsFor(lookups[i], "Address") = <<address_class>>

\* a container in which both selectors of Rooms match and the primary text
\* was taken, only the secondary selector of Size matches, and the selector
\* of Price misses
C2_Witness ==
    /\ Returned
    /\ Len(page_source) = 1
    /\ ~page_source[1].malformed
    /\ {rooms_class, rooms_contains, size_title} \subseteq page_source[1].match
    /\ size_class \notin page_source[1].match
    /\ price_class \notin page_source[1].match
    /\ Len(scraped_data) = 1
    /\ scraped_data[1].Rooms = <<"3">>
    /\ scraped_data[1].Size = <<"8", "0">>
    /\ scraped_data[1].Price = NA

\* the four texts a container shows: per field, the text of the first of
\* its selectors that matches
ShownRecord(c) ==
    [f \in Fields |->
        LET hits == SelectSeq(TiersOf(f), LAMBDA sel : sel \in c.match)
        IN  IF hits = <<>> THEN NA ELSE strip(ElementText(hits[1]))]

(* C3: a container whose extraction raises contributes no record, and every *)
(* other container of the page, before and after it, contributes exactly    *)
(* one record, in document order.                                           *)
C3_RaisingContainerSkipped ==
    Returned =>
        LET wf == WellFormed(page_source)
        IN  /\ Len(scraped_data) = Len(wf)
            /\ \A i \in 1..Len(wf) : scraped_data[i] = ShownRecord(wf[i])

\* a raising container between two different well-formed ones
C3_Witness ==
    /\ Returned
    /\ Len(page_source) = 3
    /\ ~page_source[1].malformed
    /\ page_source[2].malformed
    /\ ~page_source[3].malformed
    /\ page_source[1] # page_source[3]
    /\ Len(scraped_data) = 2
    /\ scraped_data[1] # scraped_data[2]

----------------------------------------------------------------------------
(* Properties of the main script. *)

RECURSIVE Flatten(_)
Flatten(segments) ==
    IF segments = <<>> THEN <<>>
    ELSE Head(segments) \o Flatten(Tail(segments))

RECURSIVE SumLen(_)
SumLen(segments) ==
    IF segments = <<>> THEN 0
    ELSE Len(Head(segments)) + SumLen(Tail(segments))

IsPrefix(s, t) == Len(s) <= Len(t) /\ SubSeq(t, 1, Len(s)) = s

PaginationSteps == {"scroll", "wait_next", "click", "wait_listings"}

LoopEnded == pc \in {"quit", "write", "done"}

TimedOutAt(step) == raised = [at |-> step, type |-> "TimeoutException"]

\* the file holds one row per accumulated record, in order
RowsAreAllData ==
    /\ csv.state = "complete"
    /\ Len(csv.rows) = Len(all_data)
    /\ \A i \in 1..Len(all_data) :
          csv.rows[i] = <<i - 1, all_data[i].Rooms, all_data[i].Size,
                          all_data[i].Price, all_data[i].Address>>

(* C4: when the wait for the next-page control times out, the loop stops:   *)
(* control goes to closing the browser without another page being attempted *)
(* or extracted, and the script then runs to its end (the output written,   *)
(* unless the write stage itself fails).                                    *)
C4_NextTimeoutStopsLoop ==
    /\ [][(pc = "wait_next" /\ raised' # raised /\ TimedOutAt("wait_next")')
             => (pc' = "quit" /\ page_no' = page_no /\ all_data' = all_data)]_vars
    /\ [][TimedOutAt("wait_next")
             => (page_no' = page_no /\ visits' = visits /\ pc' # "scrape")]_vars
    /\ (TimedOutAt("wait_next") ~> (pc = "done" \/ raised.at = "write"))

\* the loop was stopped by the next-page timeout on the second page and the
\* output was written
C4_Witness ==
    /\ TimedOutAt("wait_next")
    /\ pc = "done"
    /\ page_no = 2
    /\ visits = <<1, 2>>
    /\ browser = "closed"
    /\ csv.state = "complete"

(* C5: all_data is at every point the concatenation, in visit order, of the *)
(* record sequences extracted from the pages scraped so far: its length is  *)
(* the sum of the per-page counts, the scraped pages are pages 1, 2, ... n, *)
(* each scraped exactly once, and accumulated records are never removed,    *)
(* reordered or changed.                                                    *)
C5_AllDataIsConcatenation ==
    /\ [](/\ all_data = Flatten(pages_extracted)
          /\ Len(all_data) = SumLen(pages_extracted)
          /\ Len(visits) = Len(pages_extracted)
          /\ \A i \in 1..Len(visits) : visits[i] = i)
    /\ [][IsPrefix(all_data, all_data')]_vars

\* two pages scraped, each with a record, the records different
C5_Witness ==
    /\ Len(pages_extracted) = 2
    /\ Len(pages_extracted[1]) = 1
    /\ Len(pages_extracted[2]) = 1
    /\ pages_extracted[1] # pages_extracted[2]
    /\ Len(all_data) = 2
    /\ pc = "done"

(* C6: once the loop has ended the browser is closed exactly once; the      *)
(* close comes after the last page extraction and before the output is      *)
(* written, and no browser operation is issued after it.                    *)
C6_ClosedOnceBeforeWrite ==
    /\ [](/\ quit_calls <= 1
          /\ (browser = "closed") = (quit_calls = 1)
          /\ pc \in {"write", "done"} => quit_calls = 1
          /\ browser = "closed" => pc \in {"write", "done", "crashed"}
          /\ csv # NoFile => browser = "closed"
          /\ ~late_ops)
    /\ [][browser = "closed"
             => (browser' = "closed" /\ visits' = visits /\ all_data' = all_data
                 /\ page_no' = page_no)]_vars
    /\ [][csv' # csv => (browser = "closed" /\ csv = NoFile)]_vars

\* the browser closed, after two pages were scraped, and the file not yet
\* written
C6_Witness ==
    /\ pc = "write"
    /\ browser = "closed"
    /\ quit_calls = 1
    /\ Len(visits) = 2
    /\ csv = NoFile

(* C7: when the script is done the output was written exactly once, holds   *)
(* one row per accumulated record in listing order, and its columns are     *)
(* [index, Rooms, Size, Price, Address], for any number of records,         *)
(* including zero.                                                          *)
C7_OutputTable ==
    pc = "done" =>
        /\ write_calls = 1
        /\ RowsAreAllData
        /\ csv.header = <<IndexLabel, "Rooms", "Size", "Price", "Address">>

(* C8, as stated: any exception raised during a pagination step stops the   *)
(* loop as the next-page timeout does: control goes on to close the browser *)
(* and write the records accumulated so far.                                *)
C8_AnyExceptionEndsLoop ==
    /\ raised.at \in PaginationSteps => LoopEnded
    /\ (raised.at \in PaginationSteps /\ pc = "done") => RowsAreAllData

(* C8, amended: a TimeoutException raised during a pagination step          *)
(* (scrolling, waiting for the next-page control, activating it, waiting    *)
(* for the new page's listings) stops the loop as if the last page had been *)
(* reached: control goes on to close the browser and write the records      *)
(* accumulated so far.  Any other exception raised there is not caught: it  *)
(* ends the script with the browser open and nothing written.               *)
C8_OnlyTimeoutEndsLoop ==
    raised.at \in PaginationSteps =>
        IF raised.type = "TimeoutException"
        THEN /\ LoopEnded
             /\ pc \in {"write", "done"} => browser = "closed"
             /\ pc = "done" => RowsAreAllData
        ELSE /\ pc = "crashed"
             /\ browser = "open"
             /\ csv = NoFile

\* a timeout while scrolling ended the loop and the records were written
C8_Witness ==
    /\ TimedOutAt("scroll")
    /\ pc = "done"
    /\ Len(all_data) > 0
    /\ RowsAreAllData

(* C9: a non-timeout exception during navigation, during a step of the loop *)
(* or during the write stage ends the script there; when it is raised       *)
(* before the write stage no output file exists, and when it is raised      *)
(* before the loop has ended the browser is never closed.                   *)
C9_UncaughtExceptionEndsScript ==
    /\ (raised.type = "Exception") = (pc = "crashed")
    /\ pc = "crashed" =>
          /\ ~ENABLED Next
          /\ write_calls = 0
          /\ raised.at # "write" =>
                (csv = NoFile /\ browser = "open" /\ quit_calls = 0)
          /\ raised.at = "write" => browser = "closed"

\* the script ended by an exception while activating the next-page control,
\* with records accumulated and lost
C9_Witness ==
    /\ pc = "crashed"
    /\ raised = [at |-> "click", type |-> "Exception"]
    /\ Len(all_data) > 0
    /\ csv = NoFile
    /\ browser = "open"

(* C10: a timeout of the wait for the new page's listings, after the        *)
(* next-page control was activated, ends the loop like the next-page        *)
(* timeout: the page navigated to is never extracted, no further page is    *)
(* attempted, and the records of the pages scraped before are written.      *)
C10_ListingsTimeoutStopsLoop ==
    TimedOutAt("wait_listings") =>
        /\ LoopEnded
        /\ page_no >= 2
        /\ \A i \in 1..Len(visits) : visits[i] # page_no
        /\ Len(visits) = page_no - 1
        /\ Len(all_data) = SumLen(pages_extracted)
        /\ pc = "done" => RowsAreAllData

\* page 2 was navigated to and never extracted; the record of page 1 was
\* written
C10_Witness ==
    /\ TimedOutAt("wait_listings")
    /\ pc = "done"
    /\ page_no = 2
    /\ visits = <<1>>
    /\ Len(all_data) = 1
    /\ RowsAreAllData

====
